---------------------------- MODULE Spec2Model ----------------------------
(***************************************************************************)
(* A model of the template tree engine (package node) of harvest:          *)
(* src/cmd/collectors/zapiperf/plugins/nic/nic.go, lines 159-628.          *)
(*                                                                         *)
(* Nodes live in a heap: a sequence of records, a node's identity (its Go  *)
(* pointer) is its index in the sequence and NIL (0) is the nil pointer.   *)
(* Byte slices and strings are sequences of one-character strings, so that *)
(* trimming, the leading '<' test, "," concatenation and the first-word    *)
(* regular expression are computed as the code computes them.              *)
(* Attributes (Attrs) are not modelled: no operation on children, content  *)
(* or parent links reads them.                                             *)
(***************************************************************************)
EXTENDS Integers, Sequences, FiniteSets, TLC

VARIABLES
    heap,       \* the allocated nodes, heap[i] is the node with pointer i
    op,         \* the last operation called and its arguments
    steps,      \* number of operations called so far, where it is bounded
    again,      \* TRUE when the last call repeated the call before it
    ret,        \* the node returned by the last operation (NIL if none)
    matches,    \* the result of the last SearchChildren / SearchContent
    found,      \* the boolean returned by the last SearchContent
    list,       \* the accumulator handed to FlatList
    panicked    \* "" while the program runs, else the reason it stopped

vars == <<heap, op, steps, again, ret, matches, found, list, panicked>>

NIL == 0

\* ------------------------------------------------------------------ bytes

\* A byte slice is the sequence of its characters (the runes of its UTF-8
\* decoding), one string each.  A character that has no TLA+ literal is
\* written by its code point: "U+000B" is the vertical tab.

\* unicode.IsSpace, as bytes.TrimSpace applies it: '\t' '\n' '\v' '\f' '\r'
\* ' ' and the white space above ASCII
SpaceChars ==
    {" ", "\t", "\n", "\r", "\f", "U+000B", "U+0085", "U+00A0", "U+1680",
     "U+2000", "U+2001", "U+2002", "U+2003", "U+2004", "U+2005", "U+2006",
     "U+2007", "U+2008", "U+2009", "U+200A", "U+2028", "U+2029", "U+202F",
     "U+205F", "U+3000"}

WordChars ==
    {"a","b","c","d","e","f","g","h","i","j","k","l","m","n","o","p","q","r",
     "s","t","u","v","w","x","y","z","A","B","C","D","E","F","G","H","I","J",
     "K","L","M","N","O","P","Q","R","S","T","U","V","W","X","Y","Z","0","1",
     "2","3","4","5","6","7","8","9","_","-"}

\* bytes.TrimSpace: the slice without its leading and trailing white space
RECURSIVE TrimLeft(_)
TrimLeft(s) ==
    IF s # <<>> /\ Head(s) \in SpaceChars THEN TrimLeft(Tail(s)) ELSE s

RECURSIVE TrimRight(_)
TrimRight(s) ==
    IF s # <<>> /\ s[Len(s)] \in SpaceChars
    THEN TrimRight(SubSeq(s, 1, Len(s) - 1))
    ELSE s

TrimSpace(s) == TrimRight(TrimLeft(s))

\* wordRegex.FindString: the leftmost, longest run of word characters or '-'
RECURSIVE WordRun(_)
WordRun(s) ==
    IF s # <<>> /\ Head(s) \in WordChars
    THEN <<Head(s)>> \o WordRun(Tail(s))
    ELSE <<>>

RECURSIVE simpleName(_)
simpleName(s) ==
    IF s = <<>> THEN <<>>
    ELSE IF Head(s) \in WordChars THEN WordRun(s)
    ELSE simpleName(Tail(s))

\* ------------------------------------------------------------------ nodes

\* type Node struct: parent, name, XMLName.Local, Content, Children.
\* ChildrenNil tells a nil Children slice from an allocated, empty one.
NewNode(name, xmlname) ==
    [parent |-> NIL, name |-> name, XMLName |-> xmlname, Content |-> <<>>,
     Children |-> <<>>, ChildrenNil |-> TRUE]

New(name) == NewNode(name, <<>>)

NewXML(name) == NewNode(<<>>, name)

GetXMLNameS(node) == node.XMLName

GetName(node) ==
    IF GetXMLNameS(node) # <<>> THEN GetXMLNameS(node) ELSE node.name

GetParent(node) == node.parent

\* GetContent: the trimmed content unless it is empty or begins with '<'
GetContent(node) ==
    LET content == TrimSpace(node.Content)
    IN  IF Len(content) # 0 /\ content[1] # "<" THEN content ELSE <<>>

GetContentS(node) == node.Content

\* GetChild / GetChildS: the first child with that name, or NIL
RECURSIVE FirstNamed(_, _, _, _)
FirstNamed(h, cs, i, name) ==
    IF i > Len(cs) THEN NIL
    ELSE IF GetName(h[cs[i]]) = name THEN cs[i]
    ELSE FirstNamed(h, cs, i + 1, name)

GetChild(h, n, name) == FirstNamed(h, h[n].Children, 1, name)

HasChild(h, n, name) == GetChild(h, n, name) # NIL

\* GetChildByContent: the first child whose raw content equals content
RECURSIVE FirstWithContent(_, _, _, _)
FirstWithContent(h, cs, i, content) ==
    IF i > Len(cs) THEN NIL
    ELSE IF GetContentS(h[cs[i]]) = content THEN cs[i]
    ELSE FirstWithContent(h, cs, i + 1, content)

GetChildByContent(h, n, content) ==
    FirstWithContent(h, h[n].Children, 1, content)

SetContent(h, n, content) == [h EXCEPT ![n].Content = content]

\* SetName / SetNameS: the plain name; GetName still answers XMLName.Local
\* when that is set
SetName(h, n, name) == [h EXCEPT ![n].name = name]

SetXMLNameS(h, n, name) == [h EXCEPT ![n].XMLName = name]

\* AddChild: append to the Children slice; the child's parent is untouched
AddChild(h, n, child) ==
    [h EXCEPT ![n].Children = Append(@, child), ![n].ChildrenNil = FALSE]

\* NewChild: a fresh node of the receiver's naming convention, linked to the
\* receiver and appended to it.  The new node's pointer is Len(h) + 1.
NewChild(h, n, name, content) ==
    LET fresh == IF GetXMLNameS(h[n]) # <<>> THEN NewXML(name) ELSE New(name)
        child == [fresh EXCEPT !.parent = n, !.Content = content]
    IN  AddChild(Append(h, child), n, Len(h) + 1)

SetChildContentS(h, n, name, content) ==
    LET child == GetChild(h, n, name)
    IN  IF child # NIL THEN SetContent(h, child, content)
        ELSE NewChild(h, n, name, content)

\* UnmarshalXML decodes one element start ... end into the receiver.  An
\* element is [Local, Text, Elements]: its tag, its character data and the
\* elements nested after it.  InnerXML is the raw markup between its tags.
RECURSIVE InnerXML(_)
RECURSIVE MarkUp(_)
InnerXML(e) == e.Text \o MarkUp(e.Elements)

MarkUp(es) ==
    IF es = <<>> THEN <<>>
    ELSE <<"<">> \o Head(es).Local \o <<">">> \o InnerXML(Head(es))
             \o <<"<", "/">> \o Head(es).Local \o <<">">> \o MarkUp(Tail(es))

\* DecodeElement on the fields of the receiver: XMLName is the tag, Content
\* (innerxml) the raw markup inside, and each nested element is decoded into
\* a fresh node (new(Node): no name, no parent) appended to Children (any),
\* after the children the receiver already has.  name and parent are not
\* touched.
RECURSIVE UnmarshalXML(_, _, _)
RECURSIVE UnmarshalElements(_, _, _)
UnmarshalXML(h, n, e) ==
    UnmarshalElements(
        [h EXCEPT ![n].XMLName = e.Local, ![n].Content = InnerXML(e)],
        n, e.Elements)

UnmarshalElements(h, n, es) ==
    IF es = <<>> THEN h
    ELSE LET child == Len(h) + 1
             h1 == AddChild(Append(h, NewNode(<<>>, <<>>)), n, child)
         IN  UnmarshalElements(UnmarshalXML(h1, child, Head(es)), n, Tail(es))

\* PopChild: the first child with that name is replaced by the last child and
\* the slice is cut by one; the popped node keeps its parent field.
RECURSIVE IndexNamed(_, _, _, _)
IndexNamed(h, cs, i, name) ==
    IF i > Len(cs) THEN 0
    ELSE IF GetName(h[cs[i]]) = name THEN i
    ELSE IndexNamed(h, cs, i + 1, name)

PopChild(h, n, name) ==
    LET cs == h[n].Children
        i == IndexNamed(h, cs, 1, name)
    IN  IF i = 0 THEN h
        ELSE [h EXCEPT ![n].Children =
                 SubSeq([cs EXCEPT ![i] = cs[Len(cs)]], 1, Len(cs) - 1)]

\* ------------------------------------------------------- recursive walks

\* The Go runtime ends the program when a recursion does not return (stack
\* overflow).  A walk over the Children lists of h can only fail to return
\* when the lists hold a cycle.  Every recursive operation below is given
\* as many levels as a walk that returns can nest, and yields Overflow (in
\* place of a heap) or Diverged (in place of a result entry) when they are
\* used up:
\*   - Copy, FlatList and PreprocessTemplate descend node by node, and a
\*     walk that returns passes no node twice on the way down: Fuel(h);
\*   - Union and Merge descend by pairs (receiver, source), and a walk that
\*     returns passes no pair twice on the way down: PairFuel(h);
\*   - the searches descend node by node while the running path is empty
\*     (Fuel(h), spent only there); once it is not, the length of the path
\*     ends the walk.
Overflow == <<>>

Diverged == <<"stack overflow">>

Fuel(h) == Len(h) + 1

PairFuel(h) == Len(h) * Len(h) + 1

\* Copy: a fresh node (pointer Len(h) + 1) with the receiver's name and its
\* effective content (GetContent), then a copy of each child appended to it.
RECURSIVE Copy(_, _, _)
RECURSIVE CopyChildren(_, _, _, _, _)
\* mutants of Copy: the clone shares the original's children; the clone
\* takes the stored content as it is
CopyShallow(h, n, fuel) ==
    LET fresh == IF GetXMLNameS(h[n]) # <<>>
                 THEN NewXML(GetName(h[n]))
                 ELSE New(GetName(h[n]))
    IN  Append(h, [fresh EXCEPT !.Content = GetContent(h[n]),
                                !.Children = h[n].Children,
                                !.ChildrenNil = h[n].ChildrenNil])

Copy(h, n, fuel) ==
    IF h = Overflow \/ fuel = 0 THEN Overflow
    ELSE LET fresh == IF GetXMLNameS(h[n]) # <<>>
                      THEN NewXML(GetName(h[n]))
                      ELSE New(GetName(h[n]))
             clone == [fresh EXCEPT !.Content = GetContent(h[n])]
         IN  CopyChildren(Append(h, clone), Len(h) + 1, h[n].Children, 1, fuel)

CopyChildren(h, clone, cs, i, fuel) ==
    IF h = Overflow \/ i > Len(cs) THEN h
    ELSE LET h1 == Copy(h, cs[i], fuel - 1)
         IN  IF h1 = Overflow THEN Overflow
             ELSE CopyChildren(AddChild(h1, clone, Len(h) + 1),
                               clone, cs, i + 1, fuel)

\* Union, for a non-nil source.  The loop ranges over the source's Children
\* slice as it was when the loop began (Go evaluates the range once).
RECURSIVE Union(_, _, _, _)
RECURSIVE UnionChildren(_, _, _, _, _)
\* mutants of UnionChild: the HasChild test forgotten; the receiver's value
\* kept on a leaf collision; the rule driven by the receiver's existing child
UnionChildAlwaysAdds(h, n, child, fuel) == AddChild(h, n, child)

UnionChildKeepsLeaf(h, n, child, fuel) ==
    IF ~HasChild(h, n, GetName(h[child])) THEN AddChild(h, n, child)
    ELSE IF ~h[child].ChildrenNil
    THEN Union(h, GetChild(h, n, GetName(h[child])), child, fuel - 1)
    ELSE h

UnionChildByReceiver(h, n, child, fuel) ==
    IF ~HasChild(h, n, GetName(h[child])) THEN AddChild(h, n, child)
    ELSE IF Len(h[GetChild(h, n, GetName(h[child]))].Children) > 0
    THEN Union(h, GetChild(h, n, GetName(h[child])), child, fuel - 1)
    ELSE SetChildContentS(h, n, GetName(h[child]), GetContentS(h[child]))

\* mutant of UnionChild: the receiver is attached to the source's child
\* instead of the child to the receiver
UnionChildSwapped(h, n, child, fuel) ==
    IF ~HasChild(h, n, GetName(h[child])) THEN AddChild(h, child, n)
    ELSE IF ~h[child].ChildrenNil
    THEN Union(h, GetChild(h, n, GetName(h[child])), child, fuel - 1)
    ELSE SetChildContentS(h, n, GetName(h[child]), GetContentS(h[child]))

UnionChild(h, n, child, fuel) ==
    IF ~HasChild(h, n, GetName(h[child])) THEN AddChild(h, n, child)
    ELSE IF ~h[child].ChildrenNil
    THEN Union(h, GetChild(h, n, GetName(h[child])), child, fuel - 1)
    ELSE SetChildContentS(h, n, GetName(h[child]), GetContentS(h[child]))

UnionChildren(h, n, cs, i, fuel) ==
    IF h = Overflow \/ i > Len(cs) THEN h
    ELSE UnionChildren(UnionChild(h, n, cs[i], fuel), n, cs, i + 1, fuel)

Union(h, n, source, fuel) ==
    IF h = Overflow \/ fuel = 0 THEN Overflow
    ELSE LET h1 == IF Len(GetContent(h[n])) = 0
                   THEN SetContent(h, n, GetContent(h[source]))
                   ELSE h
         IN  UnionChildren(h1, n, h1[source].Children, 1, fuel)

\* searchAncestor: the receiver or the ancestor of it (along parent fields)
\* whose parent is named ancestor, or NIL.  A parent field is only ever set
\* by NewChild, to a node allocated earlier, so the walk ends.
RECURSIVE searchAncestor(_, _, _)
searchAncestor(h, n, ancestor) ==
    IF n = NIL THEN NIL
    ELSE LET p == GetParent(h[n])
         IN  IF p = NIL THEN NIL
             ELSE IF GetName(h[p]) = ancestor THEN n
             ELSE searchAncestor(h, p, ancestor)

LabelAgent == <<"L", "a", "b", "e", "l", "A", "g", "e", "n", "t">>

RECURSIVE PreprocessTemplate(_, _, _)
RECURSIVE PreprocessChildren(_, _, _, _, _)
\* mutants of PreprocessChild: the test of the ancestor forgotten; the
\* recursion made on the receiver instead of the matching child
PreprocessChildAnywhere(h, n, child, fuel) ==
    LET mine == GetChild(h, n, GetName(h[child]))
    IN  IF mine # NIL /\ Len(GetName(h[child])) > 0
        THEN LET h1 == IF Len(GetContentS(h[mine])) > 0
                       THEN SetContent(
                                NewChild(h, mine, <<>>, GetContentS(h[child])),
                                mine, <<>>)
                       ELSE h
             IN  PreprocessTemplate(h1, mine, fuel - 1)
        ELSE h

PreprocessChildOnReceiver(h, n, child, fuel) ==
    LET mine == GetChild(h, n, GetName(h[child]))
    IN  IF mine # NIL /\ Len(GetName(h[child])) > 0
        THEN LET h1 == IF searchAncestor(h, mine, LabelAgent) # NIL
                          /\ Len(GetContentS(h[mine])) > 0
                       THEN SetContent(
                                NewChild(h, mine, <<>>, GetContentS(h[child])),
                                mine, <<>>)
                       ELSE h
             IN  PreprocessTemplate(h1, n, fuel - 1)
        ELSE h

PreprocessChild(h, n, child, fuel) ==
    LET mine == GetChild(h, n, GetName(h[child]))
    IN  IF mine # NIL /\ Len(GetName(h[child])) > 0
        THEN LET h1 == IF searchAncestor(h, mine, LabelAgent) # NIL
                          /\ Len(GetContentS(h[mine])) > 0
                       THEN SetContent(
                                NewChild(h, mine, <<>>, GetContentS(h[child])),
                                mine, <<>>)
                       ELSE h
             IN  PreprocessTemplate(h1, mine, fuel - 1)
        ELSE h

PreprocessChildren(h, n, cs, i, fuel) ==
    IF h = Overflow \/ i > Len(cs) THEN h
    ELSE PreprocessChildren(PreprocessChild(h, n, cs[i], fuel),
                            n, cs, i + 1, fuel)

PreprocessTemplate(h, n, fuel) ==
    IF h = Overflow \/ fuel = 0 THEN Overflow
    ELSE PreprocessChildren(h, n, h[n].Children, 1, fuel)

\* util.Contains(skipOverwrite, name)
Contains(skipOverwrite, name) ==
    \E i \in 1..Len(skipOverwrite) : skipOverwrite[i] = name

\* Merge, for a non-nil subtemplate
RECURSIVE Merge(_, _, _, _, _)
RECURSIVE MergeChildren(_, _, _, _, _, _)
\* mutants of MergeChild: the skip-overwrite rule keyed on the name of the
\* receiver (the node mine sits under); anonymous children appended without
\* the content test
MergeChildByReceiverName(h, n, child, skipOverwrite, fuel) ==
    LET mine == GetChild(h, n, GetName(h[child]))
    IN  IF Len(GetName(h[child])) = 0
        THEN IF mine # NIL /\ GetParent(h[mine]) # NIL
                /\ GetChildByContent(h, GetParent(h[mine]),
                                     GetContentS(h[child])) = NIL
             THEN AddChild(h, GetParent(h[mine]), child)
             ELSE IF GetChildByContent(h, n, GetContentS(h[child])) = NIL
             THEN AddChild(h, n, child)
             ELSE h
        ELSE IF mine = NIL THEN AddChild(h, n, child)
        ELSE LET h1 ==
                     IF Contains(skipOverwrite, GetName(h[n]))
                     THEN SetContent(h, mine,
                              GetContentS(h[mine]) \o <<",">>
                                  \o GetContentS(h[child]))
                     ELSE SetContent(h, mine, GetContentS(h[child]))
             IN  Merge(h1, mine, child, skipOverwrite, fuel - 1)

MergeChildNoDedup(h, n, child, skipOverwrite, fuel) ==
    LET mine == GetChild(h, n, GetName(h[child]))
    IN  IF Len(GetName(h[child])) = 0 THEN AddChild(h, n, child)
        ELSE IF mine = NIL THEN AddChild(h, n, child)
        ELSE LET h1 ==
                     IF GetParent(h[mine]) # NIL
                        /\ Contains(skipOverwrite,
                                    GetName(h[GetParent(h[mine])]))
                     THEN SetContent(h, mine,
                              GetContentS(h[mine]) \o <<",">>
                                  \o GetContentS(h[child]))
                     ELSE SetContent(h, mine, GetContentS(h[child]))
             IN  Merge(h1, mine, child, skipOverwrite, fuel - 1)

\* mutant of MergeChild: a named child is adopted whether or not the receiver
\* has a child of that name
MergeChildAlwaysAdopts(h, n, child, skipOverwrite, fuel) ==
    LET mine == GetChild(h, n, GetName(h[child]))
    IN  IF Len(GetName(h[child])) = 0
        THEN IF mine # NIL /\ GetParent(h[mine]) # NIL
                /\ GetChildByContent(h, GetParent(h[mine]),
                                     GetContentS(h[child])) = NIL
             THEN AddChild(h, GetParent(h[mine]), child)
             ELSE IF GetChildByContent(h, n, GetContentS(h[child])) = NIL
             THEN AddChild(h, n, child)
             ELSE h
        ELSE AddChild(h, n, child)

\* mutant of MergeChild: on a name collision the content is written to the
\* subtemplate's child instead of the receiver's
MergeChildWritesChild(h, n, child, skipOverwrite, fuel) ==
    LET mine == GetChild(h, n, GetName(h[child]))
    IN  IF Len(GetName(h[child])) = 0
        THEN IF mine # NIL /\ GetParent(h[mine]) # NIL
                /\ GetChildByContent(h, GetParent(h[mine]),
                                     GetContentS(h[child])) = NIL
             THEN AddChild(h, GetParent(h[mine]), child)
             ELSE IF GetChildByContent(h, n, GetContentS(h[child])) = NIL
             THEN AddChild(h, n, child)
             ELSE h
        ELSE IF mine = NIL THEN AddChild(h, n, child)
        ELSE LET h1 ==
                     IF GetParent(h[mine]) # NIL
                        /\ Contains(skipOverwrite,
                                    GetName(h[GetParent(h[mine])]))
                     THEN SetContent(h, child,
                              GetContentS(h[mine]) \o <<",">>
                                  \o GetContentS(h[child]))
                     ELSE SetContent(h, child, GetContentS(h[mine]))
             IN  Merge(h1, mine, child, skipOverwrite, fuel - 1)

MergeChild(h, n, child, skipOverwrite, fuel) ==
    LET mine == GetChild(h, n, GetName(h[child]))
    IN  IF Len(GetName(h[child])) = 0
        THEN IF mine # NIL /\ GetParent(h[mine]) # NIL
                /\ GetChildByContent(h, GetParent(h[mine]),
                                     GetContentS(h[child])) = NIL
             THEN AddChild(h, GetParent(h[mine]), child)
             ELSE IF GetChildByContent(h, n, GetContentS(h[child])) = NIL
             THEN AddChild(h, n, child)
             ELSE h
        ELSE IF mine = NIL THEN AddChild(h, n, child)
        ELSE LET h1 ==
                     IF GetParent(h[mine]) # NIL
                        /\ Contains(skipOverwrite,
                                    GetName(h[GetParent(h[mine])]))
                     THEN SetContent(h, mine,
                              GetContentS(h[mine]) \o <<",">>
                                  \o GetContentS(h[child]))
                     ELSE SetContent(h, mine, GetContentS(h[child]))
             IN  Merge(h1, mine, child, skipOverwrite, fuel - 1)

MergeChildren(h, n, cs, i, skipOverwrite, fuel) ==
    IF h = Overflow \/ i > Len(cs) THEN h
    ELSE MergeChildren(MergeChild(h, n, cs[i], skipOverwrite, fuel),
                       n, cs, i + 1, skipOverwrite, fuel)

Merge(h, n, subtemplate, skipOverwrite, fuel) ==
    IF h = Overflow \/ fuel = 0 THEN Overflow
    ELSE LET h1 == IF Len(h[n].Content) = 0
                   THEN SetContent(h, n, h[subtemplate].Content)
                   ELSE h
         IN  MergeChildren(h1, n, h1[subtemplate].Children, 1,
                           skipOverwrite, fuel)

\* FlatList, for a non-nil receiver: the accumulator with the entries of the
\* receiver's leaves appended.
Counters == <<"c", "o", "u", "n", "t", "e", "r", "s">>

RECURSIVE FlatList(_, _, _, _, _)
RECURSIVE FlatChildren(_, _, _, _, _, _)
\* mutant of FlatChildren: the children are visited from the last to the first
RECURSIVE FlatChildrenReversed(_, _, _, _, _, _)
FlatChildrenReversed(h, cs, i, acc, prefix, fuel) ==
    IF i > Len(cs) THEN acc
    ELSE FlatChildrenReversed(h, cs, i + 1,
             FlatList(h, cs[Len(cs) + 1 - i], acc, prefix, fuel - 1),
             prefix, fuel)

FlatList(h, n, acc, prefix, fuel) ==
    IF fuel = 0 THEN Append(acc, Diverged)
    ELSE IF Len(h[n].Children) = 0
    THEN LET sub == IF Len(prefix) > 0
                    THEN prefix \o <<" ">> \o simpleName(GetContentS(h[n]))
                    ELSE simpleName(GetContentS(h[n]))
         IN  Append(acc, sub)
    ELSE LET nameS == GetName(h[n])
             prefix1 == IF Len(nameS) > 0 /\ nameS # Counters
                        THEN IF prefix = <<>> THEN nameS
                             ELSE prefix \o <<" ">> \o nameS
                        ELSE prefix
         IN  FlatChildren(h, h[n].Children, 1, acc, prefix1, fuel)

FlatChildren(h, cs, i, acc, prefix, fuel) ==
    IF i > Len(cs) THEN acc
    ELSE FlatChildren(h, cs, i + 1,
                      FlatList(h, cs[i], acc, prefix, fuel - 1), prefix, fuel)

\* SearchChildren, for a non-empty path: search(n, []) of the code, yielding
\* the matched nodes in the order the code appends them.  A walk that does
\* not return yields a list holding NIL.
RECURSIVE search(_, _, _, _, _)
RECURSIVE searchEach(_, _, _, _, _, _)
\* mutant of search: a running path as long as the path counts as a match
searchByLength(h, node, currentPath, path, fuel) ==
    IF fuel = 0 THEN <<NIL>>
    ELSE LET newPath == IF Len(currentPath) > 0 \/ path[1] = GetName(h[node])
                        THEN Append(currentPath, GetName(h[node]))
                        ELSE currentPath
         IN  IF Len(newPath) = Len(path) THEN <<node>>
             ELSE IF Len(newPath) < Len(path)
             THEN searchEach(h, h[node].Children, 1, newPath, path, fuel)
             ELSE <<>>

search(h, node, currentPath, path, fuel) ==
    IF fuel = 0 THEN <<NIL>>
    ELSE LET newPath == IF Len(currentPath) > 0 \/ path[1] = GetName(h[node])
                        THEN Append(currentPath, GetName(h[node]))
                        ELSE currentPath
         IN  IF newPath = path THEN <<node>>
             ELSE IF Len(newPath) < Len(path)
             THEN searchEach(h, h[node].Children, 1, newPath, path, fuel)
             ELSE <<>>

searchEach(h, cs, i, newPath, path, fuel) ==
    IF i > Len(cs) THEN <<>>
    ELSE search(h, cs[i], newPath, path,
                IF newPath = <<>> THEN fuel - 1 ELSE fuel)
             \o searchEach(h, cs, i + 1, newPath, path, fuel)

SearchChildren(h, n, path) == search(h, n, <<>>, path, Fuel(h))

\* util.MaxLen(paths): the length of the longest of the paths
RECURSIVE MaxLen(_)
MaxLen(paths) ==
    IF paths = <<>> THEN 0
    ELSE LET rest == MaxLen(Tail(paths))
         IN  IF Len(Head(paths)) > rest THEN Len(Head(paths)) ELSE rest

\* SearchContent, for a non-empty prefix: search(n, []) of the code, yielding
\* the contents matched in the order the code appends them.  A walk that
\* does not return yields a list holding Diverged.
RECURSIVE searchContent(_, _, _, _, _, _)
RECURSIVE searchContentEach(_, _, _, _, _, _, _)
\* mutant of searchContent: the branch is pruned one level too early
searchContentPrunedEarly(h, node, currentPath, prefix, paths, fuel) ==
    IF fuel = 0 THEN <<Diverged>>
    ELSE LET newPath == IF Len(currentPath) > 0 \/ prefix[1] = GetName(h[node])
                        THEN Append(currentPath, GetName(h[node]))
                        ELSE currentPath
             here == IF \E i \in 1..Len(paths) : newPath = paths[i]
                     THEN <<GetContentS(h[node])>>
                     ELSE <<>>
         IN  IF Len(newPath) + 1 < MaxLen(paths)
             THEN here \o searchContentEach(h, h[node].Children, 1, newPath,
                                            prefix, paths, fuel)
             ELSE here

searchContent(h, node, currentPath, prefix, paths, fuel) ==
    IF fuel = 0 THEN <<Diverged>>
    ELSE LET newPath == IF Len(currentPath) > 0 \/ prefix[1] = GetName(h[node])
                        THEN Append(currentPath, GetName(h[node]))
                        ELSE currentPath
             here == IF \E i \in 1..Len(paths) : newPath = paths[i]
                     THEN <<GetContentS(h[node])>>
                     ELSE <<>>
         IN  IF Len(newPath) < MaxLen(paths)
             THEN here \o searchContentEach(h, h[node].Children, 1, newPath,
                                            prefix, paths, fuel)
             ELSE here

searchContentEach(h, cs, i, newPath, prefix, paths, fuel) ==
    IF i > Len(cs) THEN <<>>
    ELSE searchContent(h, cs[i], newPath, prefix, paths,
                       IF newPath = <<>> THEN fuel - 1 ELSE fuel)
             \o searchContentEach(h, cs, i + 1, newPath, prefix, paths, fuel)

SearchContent(h, n, prefix, paths) ==
    searchContent(h, n, <<>>, prefix, paths, Fuel(h))

\* ------------------------------------------------------------- operations

\* bounds: the nodes allocated in each specification, and the calls made
\* where a call can be repeated without end
MaxNodes == 5

MaxMergeNodes == 4

MaxSteps == 2

Nodes == 1..Len(heap)

NoName == <<>>

\* a call: the method, its receiver n, its node argument, its name and content
\* arguments and its list of names (skipOverwrite, path)
Call(name, n, arg, nm, ct, names) ==
    [name |-> name, n |-> n, arg |-> arg, nm |-> nm, ct |-> ct,
     names |-> names]

Running == panicked = ""

\* the bookkeeping of an operation that returns node r and leaves heap h
Done(h, call, r) ==
    /\ heap' = h
    /\ op' = call
    /\ again' = (call = op)
    /\ ret' = r
    /\ UNCHANGED <<matches, found, list, panicked>>

\* the program stops: a nil dereference or a stack overflow
Panic(call, why) ==
    /\ panicked' = why
    /\ op' = call
    /\ again' = (call = op)
    /\ UNCHANGED <<heap, ret, matches, found, list>>

\* a heap operation that may not return
DoneOrOverflow(h, call) ==
    IF h = Overflow THEN Panic(call, "stack overflow") ELSE Done(h, call, NIL)

\* root := New(name); root.SetContent(content)
CallNew(name, content) ==
    /\ Running
    /\ Done(Append(heap, [New(name) EXCEPT !.Content = content]),
            Call("New", NIL, NIL, name, content, <<>>), Len(heap) + 1)

\* root := NewXML(name)
CallNewXML(name) ==
    /\ Running
    /\ Done(Append(heap, NewXML(name)),
            Call("NewXML", NIL, NIL, name, <<>>, <<>>), Len(heap) + 1)

CallNewChild(n, name, content) ==
    /\ Running
    /\ Done(NewChild(heap, n, name, content),
            Call("NewChild", n, NIL, name, content, <<>>), Len(heap) + 1)

CallAddChild(n, child) ==
    /\ Running
    /\ Done(AddChild(heap, n, child),
            Call("AddChild", n, child, NoName, <<>>, <<>>), NIL)

CallPopChild(n, name) ==
    /\ Running
    /\ Done(PopChild(heap, n, name),
            Call("PopChild", n, NIL, name, <<>>, <<>>),
            GetChild(heap, n, name))

CallSetChildContentS(n, name, content) ==
    /\ Running
    /\ Done(SetChildContentS(heap, n, name, content),
            Call("SetChildContentS", n, NIL, name, content, <<>>), NIL)

\* n.SetContent(content)
CallSetContent(n, content) ==
    /\ Running
    /\ Done(SetContent(heap, n, content),
            Call("SetContent", n, NIL, NoName, content, <<>>), NIL)

\* n.SetName(name) / n.SetNameS(name)
CallSetName(n, name) ==
    /\ Running
    /\ Done(SetName(heap, n, name),
            Call("SetName", n, NIL, name, <<>>, <<>>), NIL)

CallSetXMLNameS(n, name) ==
    /\ Running
    /\ Done(SetXMLNameS(heap, n, name),
            Call("SetXMLNameS", n, NIL, name, <<>>, <<>>), NIL)

\* n.UnmarshalXML(dec, root) on a well-formed element e
CallUnmarshalXML(n, e) ==
    /\ Running
    /\ Done(UnmarshalXML(heap, n, e),
            Call("UnmarshalXML", n, NIL, e.Local, InnerXML(e), <<>>), NIL)

CallCopy(n) ==
    /\ Running
    /\ LET h == Copy(heap, n, Fuel(heap))
           call == Call("Copy", n, NIL, NoName, <<>>, <<>>)
       IN  IF h = Overflow THEN Panic(call, "stack overflow")
           ELSE Done(h, call, Len(heap) + 1)

\* n.Union(source): a nil source is dereferenced (source.GetContent() or
\* source.Children) and the program panics
CallUnion(n, source) ==
    /\ Running
    /\ LET call == Call("Union", n, source, NoName, <<>>, <<>>)
       IN  IF source = NIL THEN Panic(call, "nil dereference")
           ELSE DoneOrOverflow(Union(heap, n, source, PairFuel(heap)), call)

\* n.Merge(subtemplate, skipOverwrite): a nil subtemplate returns at once
CallMerge(n, subtemplate, skipOverwrite) ==
    /\ Running
    /\ LET call == Call("Merge", n, subtemplate, NoName, <<>>, skipOverwrite)
       IN  IF subtemplate = NIL THEN Done(heap, call, NIL)
           ELSE DoneOrOverflow(
                    Merge(heap, n, subtemplate, skipOverwrite, PairFuel(heap)),
                    call)

CallPreprocessTemplate(n) ==
    /\ Running
    /\ LET h == PreprocessTemplate(heap, n, Fuel(heap))
           call == Call("PreprocessTemplate", n, NIL, NoName, <<>>, <<>>)
       IN  IF h = Overflow THEN Panic(call, "stack overflow")
           ELSE Done(h, call, NIL)

\* matches := n.SearchChildren(path), path not empty
CallSearchChildren(n, path) ==
    /\ Running
    /\ LET nodes == SearchChildren(heap, n, path)
           call == Call("SearchChildren", n, NIL, NoName, <<>>, path)
       IN  IF \E i \in 1..Len(nodes) : nodes[i] = NIL
           THEN Panic(call, "stack overflow")
           ELSE /\ matches' = nodes
                /\ op' = call
                /\ again' = (call = op)
                /\ UNCHANGED <<heap, ret, found, list, panicked>>

\* matches, found := n.SearchContent(prefix, paths), prefix not empty
CallSearchContent(n, prefix, paths) ==
    /\ Running
    /\ LET out == SearchContent(heap, n, prefix, paths)
           call == Call("SearchContent", n, NIL, NoName, prefix, paths)
       IN  IF \E i \in 1..Len(out) : out[i] = Diverged
           THEN Panic(call, "stack overflow")
           ELSE /\ matches' = out
                /\ found' = (Len(out) > 0)
                /\ op' = call
                /\ again' = (call = op)
                /\ UNCHANGED <<heap, ret, list, panicked>>

\* n.FlatList(&list, prefix)
CallFlatList(n, prefix) ==
    /\ Running
    /\ LET out == FlatList(heap, n, list, prefix, Fuel(heap))
           call == Call("FlatList", n, NIL, NoName, prefix, <<>>)
       IN  IF \E i \in 1..Len(out) : out[i] = Diverged
           THEN Panic(call, "stack overflow")
           ELSE /\ list' = out
                /\ op' = call
                /\ again' = (call = op)
                /\ UNCHANGED <<heap, ret, matches, found, panicked>>

\* ------------------------------------------------------------ tree views

\* the nodes reachable from n through Children lists, n included
RECURSIVE ReachFrom(_, _, _)
ReachFrom(h, frontier, seen) ==
    IF frontier = {} THEN seen
    ELSE LET next == UNION {{h[m].Children[i] : i \in 1..Len(h[m].Children)}
                            : m \in frontier}
         IN  ReachFrom(h, next \ (seen \cup frontier), seen \cup frontier)

Reach(h, n) == ReachFrom(h, {n}, {})

\* no node reachable from n has two children with the same name
NoDuplicateNames(h, n) ==
    \A m \in Reach(h, n) :
        \A i, j \in 1..Len(h[m].Children) :
            GetName(h[h[m].Children[i]]) = GetName(h[h[m].Children[j]])
                => i = j

\* the tree under n in h2 is the tree under n in h1: the same nodes with the
\* same names, raw contents and child sequences
SameTree(h1, h2, n) ==
    \A m \in Reach(h1, n) :
        /\ GetName(h2[m]) = GetName(h1[m])
        /\ h2[m].Content = h1[m].Content
        /\ h2[m].Children = h1[m].Children

\* the same, comparing the effective contents (GetContent)
SameEffectiveTree(h1, h2, n) ==
    \A m \in Reach(h1, n) :
        /\ GetName(h2[m]) = GetName(h1[m])
        /\ GetContent(h2[m]) = GetContent(h1[m])
        /\ h2[m].Children = h1[m].Children

\* ------------------------------------------------------------ SpecUnion
\* Two disjoint trees, a receiver under node 1 and a source under node 2,
\* are built with NewChild and PopChild; the receiver is then composed with
\* the source (or with nil): by Union, any number of times, or by Merge with
\* an empty skipOverwrite list, at most twice.

UnionNames == {<<"A">>, <<"B">>}

UnionPopNames == {<<"B">>}

UnionContents == {<<" ", "x">>, <<"<", "y">>}

Receiver == 1

Source == 2

Start(h) ==
    /\ heap = h
    /\ op = Call("New", NIL, NIL, NoName, <<>>, <<>>)
    /\ steps = 0
    /\ again = FALSE
    /\ ret = NIL
    /\ matches = <<>>
    /\ found = FALSE
    /\ list = <<>>
    /\ panicked = ""

InitUnion == Start(<<New(<<"R">>), New(<<"S">>)>>)

Building == op.name \in {"New", "NewChild", "PopChild", "AddChild"}

BuildNewChild ==
    /\ Building /\ UNCHANGED steps
    /\ Len(heap) < MaxNodes
    /\ \E n \in Nodes, name \in UnionNames, content \in UnionContents :
           CallNewChild(n, name, content)

BuildPopChild ==
    /\ Building /\ UNCHANGED steps
    /\ \E n \in Nodes, name \in UnionPopNames :
           HasChild(heap, n, name) /\ CallPopChild(n, name)

ComposeUnion ==
    /\ Building \/ op.name = "Union"
    /\ UNCHANGED steps
    /\ \E source \in {Source, NIL} : CallUnion(Receiver, source)

ComposeMerge ==
    /\ Building \/ (op.name = "Merge" /\ ~again)
    /\ UNCHANGED steps
    /\ \E subtemplate \in {Source, NIL} :
           CallMerge(Receiver, subtemplate, <<>>)

NextUnion == BuildNewChild \/ BuildPopChild \/ ComposeUnion \/ ComposeMerge

SpecUnion == InitUnion /\ [][NextUnion]_vars

\* ------------------------------------------------------------ SpecMerge
\* A base tree under node 1, named "L", and a subtemplate under node 2 are
\* built with New, NewChild and AddChild: a child may be created under one
\* node and then attached to another, or created alone and then attached.  The base
\* is then merged with the subtemplate, at most MaxSteps times, with an
\* empty skip-overwrite list or with the list holding "L".

MergeNames == {<<>>, <<"A">>}

MergeContents == {<<"a">>, <<"b">>}

SkipName == <<"L">>

SkipLists == {<<>>, <<SkipName>>}

InitMerge == Start(<<New(SkipName), New(<<"S">>)>>)

IsChildOf(h, n, child) == \E i \in 1..Len(h[n].Children) : h[n].Children[i] = child

MergeNew ==
    /\ Building /\ UNCHANGED steps
    /\ Len(heap) < MaxMergeNodes
    /\ \E name \in MergeNames, content \in MergeContents :
           CallNew(name, content)

MergeNewChild ==
    /\ Building /\ UNCHANGED steps
    /\ Len(heap) < MaxMergeNodes
    /\ \E n \in Nodes, name \in MergeNames, content \in MergeContents :
           CallNewChild(n, name, content)

\* the node just created is attached to the base or to the subtemplate
MergeAddChild ==
    /\ op.name \in {"New", "NewChild"} /\ UNCHANGED steps
    /\ ret \notin {NIL, Receiver, Source}
    /\ \E n \in {Receiver, Source} :
           /\ ~IsChildOf(heap, n, ret)
           /\ CallAddChild(n, ret)

MergeCall ==
    /\ steps < MaxSteps /\ steps' = steps + 1
    /\ \E skipOverwrite \in SkipLists :
           CallMerge(Receiver, Source, skipOverwrite)

NextMerge == MergeNew \/ MergeNewChild \/ MergeAddChild \/ MergeCall

SpecMerge == InitMerge /\ [][NextMerge]_vars

\* ----------------------------------------------------------- SpecSearch
\* A tree is built under node 1 with NewChild and searched once, from its
\* root, for a path of one to MaxPathLen names.

MaxSearchNodes == 4

MaxPathLen == 2

SearchNames == {<<"a">>, <<"b">>}

Root == 1

RECURSIVE PathsOf(_)
PathsOf(len) ==
    IF len = 0 THEN {<<>>}
    ELSE {Append(p, name) : p \in PathsOf(len - 1), name \in SearchNames}

SearchPaths == UNION {PathsOf(len) : len \in 1..MaxPathLen}

InitSearch == \E name \in SearchNames : Start(<<New(name)>>)

SearchNewChild ==
    /\ Building /\ UNCHANGED steps
    /\ Len(heap) < MaxSearchNodes
    /\ \E n \in Nodes, name \in SearchNames : CallNewChild(n, name, <<>>)

SearchCall ==
    /\ Building /\ UNCHANGED steps
    /\ \E path \in SearchPaths : CallSearchChildren(Root, path)

NextSearch == SearchNewChild \/ SearchCall

SpecSearch == InitSearch /\ [][NextSearch]_vars

\* ------------------------------------------------------------- SpecFlat
\* A tree is built under node 1 with NewChild and flattened from its root,
\* once or twice with the same prefix, into the same accumulator (steps counts
\* the flattenings).

MaxFlatNodes == 4

FlatNames == {<<"n">>, Counters, NoName}

FlatContents == {<<"x">>, <<"y", " ", "z">>}

FlatPrefixes == {<<>>, <<"p">>}

InitFlat == Start(<<New(<<"n">>)>>)

FlatNewChild ==
    /\ Building /\ UNCHANGED steps
    /\ Len(heap) < MaxFlatNodes
    /\ \E n \in Nodes, name \in FlatNames, content \in FlatContents :
           CallNewChild(n, name, content)

FlatCall ==
    /\ Building \/ (op.name = "FlatList" /\ ~again)
    /\ steps' = steps + 1
    /\ \E prefix \in FlatPrefixes :
           /\ op.name = "FlatList" => prefix = op.ct
           /\ CallFlatList(Root, prefix)

NextFlat == FlatNewChild \/ FlatCall

SpecFlat == InitFlat /\ [][NextFlat]_vars

\* ------------------------------------------------------------- SpecCopy
\* A tree is built under node 1 with NewChild and copied from its root (steps
\* counts the copy); one node of the copy is then given a content, a new child,
\* or has a child popped.

MaxCopyNodes == 3

CopyNames == {<<"a">>, NoName}

CopyContents == {<<" ", "U+000B", "x">>, <<"<", "y", ">">>}

InitCopy == \E root \in {New(<<"a">>), NewXML(<<"a">>)} : Start(<<root>>)

CopyNewChild ==
    /\ steps = 0 /\ UNCHANGED steps
    /\ Len(heap) < MaxCopyNodes
    /\ \E n \in Nodes, name \in CopyNames, content \in CopyContents :
           CallNewChild(n, name, content)

CopyCall == steps = 0 /\ steps' = 1 /\ CallCopy(Root)

\* the nodes of the copy just made
Clone == Reach(heap, ret)

CloneSetContent ==
    /\ op.name = "Copy" /\ UNCHANGED steps
    /\ \E n \in Clone, content \in CopyContents : CallSetContent(n, content)

CloneNewChild ==
    /\ op.name = "Copy" /\ UNCHANGED steps
    /\ \E n \in Clone, name \in CopyNames, content \in CopyContents :
           CallNewChild(n, name, content)

ClonePopChild ==
    /\ op.name = "Copy" /\ UNCHANGED steps
    /\ \E n \in Clone, name \in CopyNames : CallPopChild(n, name)

NextCopy ==
    \/ CopyNewChild
    \/ CopyCall
    \/ CloneSetContent
    \/ CloneNewChild
    \/ ClonePopChild

SpecCopy == InitCopy /\ [][NextCopy]_vars

\* ------------------------------------------------------------ SpecLinks
\* Up to MaxLinkSteps calls of the methods that change the tree, on two roots
\* and the nodes made under them or decoded into them.

MaxLinkSteps == 4

LinkNames == {<<"A">>}

LinkContents == {<<"x">>}

LinkElements ==
    LET leaf == [Local |-> <<"A">>, Text |-> <<"x">>, Elements |-> <<>>]
    IN  {leaf, [Local |-> <<"S">>, Text |-> <<" ">>, Elements |-> <<leaf>>]}

InitLinks == Start(<<New(LabelAgent), New(<<"S">>)>>)

Ticking == steps < MaxLinkSteps /\ steps' = steps + 1

LinkNewChild ==
    /\ Ticking
    /\ \E n \in Nodes, name \in LinkNames, content \in LinkContents :
           CallNewChild(n, name, content)

LinkAddChild == Ticking /\ \E n, child \in Nodes : CallAddChild(n, child)

LinkPopChild ==
    Ticking /\ \E n \in Nodes, name \in LinkNames : CallPopChild(n, name)

LinkSetChildContentS ==
    /\ Ticking
    /\ \E n \in Nodes, name \in LinkNames, content \in LinkContents :
           CallSetChildContentS(n, name, content)

LinkSetName ==
    Ticking /\ \E n \in Nodes, name \in LinkNames : CallSetName(n, name)

LinkSetXMLNameS ==
    Ticking /\ \E n \in Nodes, name \in LinkNames : CallSetXMLNameS(n, name)

LinkUnmarshalXML ==
    Ticking /\ \E n \in Nodes, e \in LinkElements : CallUnmarshalXML(n, e)

LinkUnion == Ticking /\ \E n, source \in Nodes : CallUnion(n, source)

LinkMerge ==
    /\ Ticking
    /\ \E n, subtemplate \in Nodes, skipOverwrite \in {<<>>, <<LabelAgent>>} :
           CallMerge(n, subtemplate, skipOverwrite)

LinkPreprocessTemplate ==
    Ticking /\ \E n \in Nodes : CallPreprocessTemplate(n)

NextLinks ==
    \/ LinkNewChild
    \/ LinkAddChild
    \/ LinkPopChild
    \/ LinkSetChildContentS
    \/ LinkSetName
    \/ LinkSetXMLNameS
    \/ LinkUnmarshalXML
    \/ LinkUnion
    \/ LinkMerge
    \/ LinkPreprocessTemplate

SpecLinks == InitLinks /\ [][NextLinks]_vars

\* ---------------------------------------------------------- SpecContent
\* A tree is built under node 1 with NewChild and its contents are searched
\* once, from its root, for a list of one or two candidate paths.

MaxContentNodes == 4

ContentPrefixes == {<<<<"a">>>>}

ContentPaths ==
    {<<>>, <<<<"a">>>>, <<<<"a">>, <<"a">>>>, <<<<"a">>, <<"b">>>>}

ContentPathLists ==
    {<<p>> : p \in ContentPaths} \cup {<<p, q>> : p, q \in ContentPaths}

InitContent == \E name \in SearchNames : Start(<<New(name)>>)

ContentNewChild ==
    /\ Building /\ UNCHANGED steps
    /\ Len(heap) < MaxContentNodes
    /\ \E n \in Nodes, name \in SearchNames, content \in FlatContents :
           CallNewChild(n, name, content)

ContentCall ==
    /\ Building /\ UNCHANGED steps
    /\ \E prefix \in ContentPrefixes, paths \in ContentPathLists :
           CallSearchContent(Root, prefix, paths)

NextContent == ContentNewChild \/ ContentCall

SpecContent == InitContent /\ [][NextContent]_vars

\* ----------------------------------------------------------- SpecNaming
\* A tree is built with NewChild, with named and anonymous children, under a
\* root created plain or qualified.

NamingNames == {<<"k">>, NoName}

InitNaming == \E root \in {New(<<"r">>), NewXML(<<"r">>)} : Start(<<root>>)

NamingNewChild ==
    /\ UNCHANGED steps
    /\ Len(heap) < MaxNodes
    /\ \E n \in Nodes, name \in NamingNames :
           CallNewChild(n, name, <<"x">>)

NextNaming == NamingNewChild

SpecNaming == InitNaming /\ [][NextNaming]_vars

\* ------------------------------------------------------- SpecPreprocess
\* A tree is built with NewChild, with named and anonymous children, under a
\* root that is or is not the sentinel, and one of its nodes is preprocessed
\* (steps counts the call).

MaxPreNodes == 4

PreNames == {LabelAgent, <<"k">>, NoName}

PreContents == {<<>>, <<"x">>}

InitPre == \E name \in {LabelAgent, <<"k">>} : Start(<<New(name)>>)

PreNewChild ==
    /\ steps = 0 /\ UNCHANGED steps
    /\ Len(heap) < MaxPreNodes
    /\ \E n \in Nodes, name \in PreNames, content \in PreContents :
           CallNewChild(n, name, content)

PreCall ==
    /\ steps = 0 /\ steps' = 1
    /\ \E n \in Nodes : CallPreprocessTemplate(n)

NextPre == PreNewChild \/ PreCall

SpecPreprocess == InitPre /\ [][NextPre]_vars

\* ------------------------------------------------------------ SpecOrder
\* Children are created under node 1 with NewChild, or created with New and
\* attached with AddChild, and popped by name.

OrderNames == {<<"A">>, <<"B">>}

InitOrder == Start(<<New(<<"p">>)>>)

OrderNewChild ==
    /\ UNCHANGED steps
    /\ Len(heap) < MaxNodes
    /\ \E name \in OrderNames : CallNewChild(Root, name, <<>>)

OrderNew ==
    /\ UNCHANGED steps
    /\ op.name # "New"
    /\ Len(heap) < MaxNodes
    /\ \E name \in OrderNames : CallNew(name, <<>>)

OrderAddChild ==
    /\ UNCHANGED steps
    /\ op.name = "New" /\ ret # NIL
    /\ CallAddChild(Root, ret)

OrderPopChild ==
    /\ UNCHANGED steps
    /\ op.name # "New"
    /\ \E name \in OrderNames : CallPopChild(Root, name)

NextOrder == OrderNewChild \/ OrderNew \/ OrderAddChild \/ OrderPopChild

SpecOrder == InitOrder /\ [][NextOrder]_vars

\* ------------------------------------------------------------ SpecFrame
\* Two trees that share no node are built with NewChild under the base (node
\* 1) and the subtemplate (node 2); the base is then merged with the
\* subtemplate once, or twice with the same skip-overwrite list.

MaxFrameNodes == 5

FrameNames == {NoName, <<"A">>, <<"B">>}

InitFrame == Start(<<New(SkipName), New(<<"S">>)>>)

FrameNewChild ==
    /\ Building /\ UNCHANGED steps
    /\ Len(heap) < MaxFrameNodes
    /\ \E n \in Nodes, name \in FrameNames, content \in MergeContents :
           CallNewChild(n, name, content)

FrameMerge ==
    /\ Building \/ (op.name = "Merge" /\ ~again)
    /\ steps' = steps + 1
    /\ \E skipOverwrite \in SkipLists :
           /\ op.name = "Merge" => skipOverwrite = op.names
           /\ CallMerge(Receiver, Source, skipOverwrite)

NextFrame == FrameNewChild \/ FrameMerge

SpecFrame == InitFrame /\ [][NextFrame]_vars

\* ---------------------------------------------------------- SpecAcyclic
\* Two trees that share no node are built with NewChild under two roots;
\* then up to MaxCycleSteps calls of Union and Merge, of one root with the
\* other in either direction, and of PreprocessTemplate on a root.

MaxCycleNodes == 4

MaxCycleSteps == 2

Roots == {Receiver, Source}

InitAcyclic == Start(<<New(LabelAgent), New(<<"S">>)>>)

AcyclicNewChild ==
    /\ steps = 0 /\ UNCHANGED steps
    /\ Len(heap) < MaxCycleNodes
    /\ \E n \in Nodes, name \in MergeNames, content \in MergeContents :
           CallNewChild(n, name, content)

Calling == steps < MaxCycleSteps /\ steps' = steps + 1

AcyclicUnion ==
    Calling /\ \E n, source \in Roots : n # source /\ CallUnion(n, source)

AcyclicMerge ==
    /\ Calling
    /\ \E n, subtemplate \in Roots, skipOverwrite \in {<<>>, <<LabelAgent>>} :
           n # subtemplate /\ CallMerge(n, subtemplate, skipOverwrite)

AcyclicPreprocessTemplate ==
    Calling /\ \E n \in Roots : CallPreprocessTemplate(n)

NextAcyclic ==
    \/ AcyclicNewChild
    \/ AcyclicUnion
    \/ AcyclicMerge
    \/ AcyclicPreprocessTemplate

SpecAcyclic == InitAcyclic /\ [][NextAcyclic]_vars

\* ------------------------------------------------------------------- C1

SecondUnion ==
    /\ op.name = "Union" /\ op.arg = Source /\ panicked = ""
    /\ op' = op

\* C1 as stated: a second Union of the same source leaves every node of the
\* receiver's tree with the name, content and children the first call left.
C1_UnionIdempotent ==
    [][SecondUnion => SameTree(heap, heap', Receiver)]_vars

\* C1 amended: when no node of the source tree has two children of the same
\* name, a second Union of the same source leaves every node of the
\* receiver's tree with the name, effective content (GetContent) and
\* children the first call left.
C1_UnionIdempotentAmended ==
    [][SecondUnion /\ NoDuplicateNames(heap, Source)
          => SameEffectiveTree(heap, heap', Receiver)]_vars

\* a state in which Union has been called twice in a row on a source without
\* duplicate names, the first call having recursed into a child of the
\* receiver and adopted a grandchild of the source there
C1_Witness ==
    /\ op.name = "Union" /\ op.arg = Source /\ again /\ panicked = ""
    /\ NoDuplicateNames(heap, Source)
    /\ \E i \in 1..Len(heap[Receiver].Children),
          j \in 1..Len(heap[Source].Children) :
           LET m == heap[Receiver].Children[i]
               c == heap[Source].Children[j]
           IN  /\ m # c
               /\ GetName(heap[m]) = GetName(heap[c])
               /\ \E k \in 1..Len(heap[c].Children) :
                      \E l \in 1..Len(heap[m].Children) :
                          heap[m].Children[l] = heap[c].Children[k]

\* ------------------------------------------------------------------- C2

EmptyNode(node) == node.Content = <<>> /\ node.Children = <<>>

\* C2: Union and Merge called with nil return normally and change nothing;
\* called with a node without content and children they leave the
\* receiver's content and child list as they were.
C2_NilOrEmptyIsNoOp ==
    [][(panicked = "" /\ op'.name \in {"Union", "Merge"})
          => /\ op'.arg = NIL => (panicked' = "" /\ heap' = heap)
             /\ (op'.arg # NIL /\ EmptyNode(heap[op'.arg]))
                    => /\ heap'[op'.n].Content = heap[op'.n].Content
                       /\ heap'[op'.n].Children = heap[op'.n].Children]_vars

\* ------------------------------------------------------------------- C3

\* the first composition of the receiver with the source, by Union or Merge
FirstCompose ==
    /\ Building
    /\ op'.name \in {"Union", "Merge"} /\ op'.arg = Source /\ panicked' = ""

SourceChild(h, i) == h[Source].Children[i]

\* the receiver's child that a source child collides with, or NIL
Mine(h, c) == GetChild(h, Receiver, GetName(h[c]))

LeafCollision(h, c) ==
    /\ Mine(h, c) # NIL
    /\ Len(h[Mine(h, c)].Children) = 0
    /\ Len(h[c].Children) = 0

LastOfItsName(h, i) ==
    \A j \in (i + 1)..Len(h[Source].Children) :
        GetName(h[SourceChild(h, j)]) # GetName(h[SourceChild(h, i)])

OnlyOfItsName(h, i) ==
    \A j \in 1..Len(h[Source].Children) :
        j # i => GetName(h[SourceChild(h, j)]) # GetName(h[SourceChild(h, i)])

\* C3 as stated: whenever the receiver has a leaf child named A and the
\* source has a leaf child named A with content v, the receiver's child A
\* has content v after Merge (empty skip list) and after Union.
C3_LeafCollision ==
    [][FirstCompose
          => \A i \in 1..Len(heap[Source].Children) :
                 LET c == SourceChild(heap, i)
                 IN  LeafCollision(heap, c)
                         => heap'[Mine(heap', c)].Content = heap[c].Content]_vars

\* C3 amended: the receiver's child A ends with the content of the last
\* source child named A when that child is a leaf; for Union the child's
\* Children slice must moreover be nil (it never held a child).
C3_LeafCollisionAmended ==
    [][FirstCompose
          => \A i \in 1..Len(heap[Source].Children) :
                 LET c == SourceChild(heap, i)
                 IN  (/\ LeafCollision(heap, c)
                      /\ LastOfItsName(heap, i)
                      /\ op'.name = "Union" => heap[c].ChildrenNil)
                         => heap'[Mine(heap', c)].Content = heap[c].Content]_vars

\* a state after one Union or Merge in which a leaf of the receiver carries
\* the content of the last source leaf of its name
C3_Witness ==
    /\ op.name \in {"Union", "Merge"} /\ op.arg = Source /\ ~again
    /\ panicked = ""
    /\ \E i \in 1..Len(heap[Source].Children) :
           LET c == SourceChild(heap, i)
           IN  /\ LeafCollision(heap, c)
               /\ LastOfItsName(heap, i)
               /\ heap[c].ChildrenNil
               /\ Mine(heap, c) # c
               /\ heap[Mine(heap, c)].parent = Receiver
               /\ heap[Mine(heap, c)].Content = heap[c].Content
               /\ \E j \in 1..(i - 1) :
                      /\ GetName(heap[SourceChild(heap, j)]) = GetName(heap[c])
                      /\ heap[SourceChild(heap, j)].Content # heap[c].Content

\* ------------------------------------------------------------------- C4

\* a call of Merge on the base and the subtemplate that returns
MergeStep ==
    /\ op'.name = "Merge" /\ op'.arg = Source
    /\ steps' = steps + 1 /\ panicked' = ""

Named(h, c) == Len(GetName(h[c])) > 0

\* m is met once on the way down from the base: it is one child of the base,
\* once, and lies under no other child of the base nor under itself
MetOnce(h, m) ==
    /\ Cardinality({k \in 1..Len(h[Receiver].Children) :
                        m \in Reach(h, h[Receiver].Children[k])}) = 1
    /\ \A k \in 1..Len(h[m].Children) : m \notin Reach(h, h[m].Children[k])

\* the collision of the i-th child of the subtemplate with a child of the
\* base that the call modifies once: the two are one node, or the child of
\* the subtemplate shares no node with the tree of the base
NameCollision(h, i) ==
    LET c == SourceChild(h, i)
    IN  /\ Named(h, c)
        /\ OnlyOfItsName(h, i)
        /\ Mine(h, c) # NIL
        /\ MetOnce(h, Mine(h, c))
        /\ c = Mine(h, c) \/ Reach(h, c) \cap Reach(h, Receiver) = {}

Accumulated(h, c) ==
    GetContentS(h[Mine(h, c)]) \o <<",">> \o GetContentS(h[c])

\* C4 as stated: the colliding child of the base accumulates ("old,new")
\* when the node it sits under is named in the skip-overwrite list, and is
\* overwritten otherwise, however it came to sit there.
C4_SkipKeyedOnHolder ==
    [][MergeStep
          => \A i \in 1..Len(heap[Source].Children) :
                 LET c == SourceChild(heap, i)
                 IN  NameCollision(heap, i)
                         => heap'[Mine(heap, c)].Content =
                                IF Contains(op'.names, GetName(heap[Receiver]))
                                THEN Accumulated(heap, c)
                                ELSE GetContentS(heap[c])]_vars

\* C4 amended: the colliding child accumulates exactly when its parent
\* back-reference is set and the node it refers to is named in the
\* skip-overwrite list; a child without back-reference, or with one to a
\* node not in the list, is overwritten.
C4_SkipKeyedOnParentLink ==
    [][MergeStep
          => \A i \in 1..Len(heap[Source].Children) :
                 LET c == SourceChild(heap, i)
                     p == GetParent(heap[Mine(heap, c)])
                 IN  NameCollision(heap, i)
                         => heap'[Mine(heap, c)].Content =
                                IF p # NIL /\ Contains(op'.names, GetName(heap[p]))
                                THEN Accumulated(heap, c)
                                ELSE GetContentS(heap[c])]_vars

\* a state after Merge with "L" in the list, in which a child the base "L"
\* created with NewChild holds "a,b"
C4_Witness ==
    /\ op.name = "Merge" /\ op.names = <<SkipName>> /\ steps = 1
    /\ panicked = ""
    /\ \E k \in 1..Len(heap[Receiver].Children) :
           LET m == heap[Receiver].Children[k]
           IN  /\ heap[m].parent = Receiver
               /\ Named(heap, m)
               /\ heap[m].Content = <<"a", ",", "b">>

\* ------------------------------------------------------------------- C5

Anonymous(h, c) == Len(GetName(h[c])) = 0

\* the number of children of n whose content is content
ContentCount(h, n, content) ==
    Cardinality({k \in 1..Len(h[n].Children) :
                     GetContentS(h[h[n].Children[k]]) = content})

UniqueContents(h, n) ==
    \A k, l \in 1..Len(h[n].Children) :
        GetContentS(h[h[n].Children[k]]) = GetContentS(h[h[n].Children[l]])
            => k = l

\* C5 as stated: if the base holds no two children with the same content,
\* then after Merge every content of an anonymous child of the subtemplate
\* is the content of exactly one child of the base.
C5_AnonymousDedup ==
    [][(MergeStep /\ UniqueContents(heap, Receiver))
          => \A i \in 1..Len(heap[Source].Children) :
                 LET c == SourceChild(heap, i)
                 IN  Anonymous(heap, c)
                         => ContentCount(heap', Receiver,
                                         GetContentS(heap[c])) = 1]_vars

\* the parent back-reference of c is unset or refers to the base or to the
\* subtemplate
LinkedHere(h, c) == GetParent(h[c]) \in {NIL, Receiver, Source}

\* C5 amended: the same, for a subtemplate all of whose children are
\* anonymous, when the back-reference of the base's first anonymous child
\* and of each child of the subtemplate is unset or refers to the base or
\* the subtemplate.
C5_AnonymousDedupAmended ==
    [][(/\ MergeStep
        /\ UniqueContents(heap, Receiver)
        /\ \A i \in 1..Len(heap[Source].Children) :
               /\ Anonymous(heap, SourceChild(heap, i))
               /\ LinkedHere(heap, SourceChild(heap, i))
        /\ GetChild(heap, Receiver, NoName) # NIL
               => LinkedHere(heap, GetChild(heap, Receiver, NoName)))
          => \A i \in 1..Len(heap[Source].Children) :
                 ContentCount(heap', Receiver,
                              GetContentS(heap[SourceChild(heap, i)])) = 1]_vars

\* a state after Merge in which the subtemplate holds two anonymous children
\* with one content, and the base one child with it, next to an anonymous
\* child of its own
C5_Witness ==
    /\ op.name = "Merge" /\ steps = 1 /\ panicked = ""
    /\ Len(heap[Source].Children) = 2
    /\ \A i \in 1..2 :
           /\ Anonymous(heap, SourceChild(heap, i))
           /\ heap[SourceChild(heap, i)].parent = Source
           /\ GetContentS(heap[SourceChild(heap, i)]) = <<"b">>
    /\ ContentCount(heap, Receiver, <<"b">>) = 1
    /\ IsChildOf(heap, Receiver, SourceChild(heap, 1))

\* ------------------------------------------------------------------- C6

\* the names from root down to node, in a tree whose parent fields are those
\* NewChild set
RECURSIVE NamePath(_, _, _)
NamePath(h, root, node) ==
    IF node = root THEN <<GetName(h[node])>>
    ELSE Append(NamePath(h, root, GetParent(h[node])), GetName(h[node]))

\* names from its first element equal to first on
RECURSIVE FromFirst(_, _)
FromFirst(names, first) ==
    IF names = <<>> \/ Head(names) = first THEN names
    ELSE FromFirst(Tail(names), first)

Searched == op.name = "SearchChildren" /\ panicked = ""

\* C6 as stated: SearchChildren(path) returns only nodes whose names, from
\* the receiver down to the node, are exactly path.
C6_ExactFromRoot ==
    Searched
        => \A i \in 1..Len(matches) :
               NamePath(heap, op.n, matches[i]) = op.names

\* C6 amended: SearchChildren(path) returns only nodes whose names, from the
\* first node named path[0] on the way down from the receiver, are exactly
\* path; the nodes above that one are not compared.
C6_ExactFromAnchor ==
    Searched
        => \A i \in 1..Len(matches) :
               FromFirst(NamePath(heap, op.n, matches[i]), op.names[1])
                   = op.names

\* a search for a path of two names that found a node two levels below the
\* root, the root having another name than the path's first
C6_Witness ==
    /\ Searched
    /\ Len(op.names) = 2
    /\ GetName(heap[Root]) # op.names[1]
    /\ Len(matches) > 0
    /\ \E n \in Nodes : Len(NamePath(heap, Root, n)) = 3 /\ n \notin
           {matches[i] : i \in 1..Len(matches)}

\* ------------------------------------------------------------------- C8

Leaves(h, n) == {m \in Reach(h, n) : Len(h[m].Children) = 0}

\* the position of node among its parent's children
IndexIn(h, node) ==
    CHOOSE i \in 1..Len(h[GetParent(h[node])].Children) :
        h[GetParent(h[node])].Children[i] = node

\* the child positions from root down to node, in a tree whose parent fields
\* are those NewChild set
RECURSIVE IndexPath(_, _, _)
IndexPath(h, root, node) ==
    IF node = root THEN <<>>
    ELSE Append(IndexPath(h, root, GetParent(h[node])), IndexIn(h, node))

\* p comes before q in left-to-right order
RECURSIVE Before(_, _)
Before(p, q) ==
    /\ p # <<>> /\ q # <<>>
    /\ \/ Head(p) < Head(q)
       \/ Head(p) = Head(q) /\ Before(Tail(p), Tail(q))

\* the place of a leaf among the leaves under root, in pre-order
Rank(h, root, leaf) ==
    1 + Cardinality({m \in Leaves(h, root) :
                        Before(IndexPath(h, root, m),
                               IndexPath(h, root, leaf))})

\* the names of the nodes from root down to the parent of node that count
\* in a flattened entry
RECURSIVE PrefixNames(_, _, _)
PrefixNames(h, root, node) ==
    IF node = root THEN <<>>
    ELSE LET up == GetParent(h[node])
             nameS == GetName(h[up])
         IN  PrefixNames(h, root, up)
                 \o (IF nameS # <<>> /\ nameS # Counters THEN <<nameS>>
                     ELSE <<>>)

RECURSIVE Join(_)
Join(words) ==
    IF Len(words) = 1 THEN words[1]
    ELSE words[1] \o <<" ">> \o Join(Tail(words))

\* the entry of a leaf: the prefix, the names above it and the first word of
\* its content, separated by spaces
Entry(h, root, leaf, prefix) ==
    Join((IF prefix # <<>> THEN <<prefix>> ELSE <<>>)
             \o PrefixNames(h, root, leaf)
             \o <<simpleName(GetContentS(h[leaf]))>>)

Flattened == op'.name = "FlatList" /\ panicked' = "" /\ steps' = steps + 1

\* C8: FlatList appends exactly one entry per leaf of the receiver's subtree,
\* the leaves in pre-order left to right whatever their depth, and keeps the
\* entries already in the accumulator in front, unchanged.
C8_FlatListOrder ==
    [][Flattened =>
           /\ Len(list') = Len(list) + Cardinality(Leaves(heap, op'.n))
           /\ SubSeq(list', 1, Len(list)) = list
           /\ \A leaf \in Leaves(heap, op'.n) :
                  list'[Len(list) + Rank(heap, op'.n, leaf)]
                      = Entry(heap, op'.n, leaf, op'.ct)]_vars

\* a second flattening of a tree with a leaf one level down, to the left of
\* a leaf two levels down with another entry
C8_Witness ==
    /\ op.name = "FlatList" /\ panicked = "" /\ steps = 2
    /\ Len(list) = 2 * Cardinality(Leaves(heap, Root))
    /\ \E x, y \in Leaves(heap, Root) :
           /\ Len(IndexPath(heap, Root, x)) = 1
           /\ Len(IndexPath(heap, Root, y)) = 2
           /\ Rank(heap, Root, y) = Rank(heap, Root, x) + 1
           /\ list[Rank(heap, Root, x)] # list[Rank(heap, Root, y)]

\* ------------------------------------------------------------------- C7

\* clone and its subtree have, node for node, the names and the ordered
\* children structure of node and its subtree, and the same stored content
RECURSIVE SameAsStored(_, _, _)
SameAsStored(h, node, clone) ==
    /\ GetName(h[clone]) = GetName(h[node])
    /\ h[clone].Content = h[node].Content
    /\ Len(h[clone].Children) = Len(h[node].Children)
    /\ \A i \in 1..Len(h[node].Children) :
           SameAsStored(h, h[node].Children[i], h[clone].Children[i])

\* the same, the clone's stored content being the original's effective
\* content
RECURSIVE SameAsEffective(_, _, _)
SameAsEffective(h, node, clone) ==
    /\ GetName(h[clone]) = GetName(h[node])
    /\ h[clone].Content = GetContent(h[node])
    /\ Len(h[clone].Children) = Len(h[node].Children)
    /\ \A i \in 1..Len(h[node].Children) :
           SameAsEffective(h, h[node].Children[i], h[clone].Children[i])

\* the step is a Copy that returned
Copied == op'.name = "Copy" /\ panicked' = "" /\ steps' = steps + 1

\* the copy is made of as many nodes as the original, none of which existed
FreshNodes ==
    /\ Reach(heap', ret') \cap Nodes = {}
    /\ Cardinality(Reach(heap', ret')) = Cardinality(Reach(heap, op'.n))

\* the step changes a node of the copy
CloneChanged == op.name = "Copy" /\ op'.n \in Clone

OriginalKept == \A n \in Reach(heap, Root) : heap'[n] = heap[n]

\* C7 as stated: the copy is a tree of fresh nodes with, node for node, the
\* original's name, content and ordered children, and no later change of a
\* node of the copy changes a node of the original.
C7_CopySameContent ==
    [][/\ Copied => SameAsStored(heap', op'.n, ret') /\ FreshNodes
       /\ CloneChanged => OriginalKept]_vars

\* C7 amended: the copy is a tree of fresh nodes with, node for node, the
\* original's name, the original's effective content (GetContent: trimmed,
\* and empty when it begins with '<') and ordered children, and no later
\* change of a node of the copy changes a node of the original.
C7_CopyEffectiveContent ==
    [][/\ Copied => SameAsEffective(heap', op'.n, ret') /\ FreshNodes
       /\ CloneChanged => OriginalKept]_vars

\* a copy of a three-node chain whose contents differ from their effective
\* contents, after a child of the copy was popped
C7_Witness ==
    /\ op.name = "PopChild" /\ panicked = "" /\ ret # NIL
    /\ Len(heap[Root].Children) = 1
    /\ Len(heap[heap[Root].Children[1]].Children) = 1
    /\ \A n \in Reach(heap, Root) \ {Root} :
           heap[n].Content # GetContent(heap[n])
    /\ \E n \in Nodes \ Reach(heap, Root) :
           /\ GetParent(heap[n]) = NIL
           /\ GetName(heap[n]) = GetName(heap[Root])
           /\ heap[n].Children = <<>>

\* ------------------------------------------------------------------- C9

\* C9: every node whose parent back-reference is set is an element of that
\* parent's children list.
C9_ParentLinks ==
    \A n \in Nodes :
        GetParent(heap[n]) # NIL
            => \E i \in 1..Len(heap[GetParent(heap[n])].Children) :
                   heap[GetParent(heap[n])].Children[i] = n

\* ------------------------------------------------------------------ C11

\* p comes before q in pre-order: p leads to an ancestor of q's node, or
\* branches off to the left of q
RECURSIVE Earlier(_, _)
Earlier(p, q) ==
    /\ q # <<>>
    /\ \/ p = <<>>
       \/ Head(p) < Head(q)
       \/ Head(p) = Head(q) /\ Earlier(Tail(p), Tail(q))

\* the running path of node: its names from the first node named first on
\* the way down from root
RunningPath(h, root, node, first) ==
    FromFirst(NamePath(h, root, node), first)

\* the nodes under root whose running path is one of the candidate paths
Matching(h, root, prefix, paths) ==
    {m \in Reach(h, root) :
        \E i \in 1..Len(paths) :
            RunningPath(h, root, m, prefix[1]) = paths[i]}

\* the result is the contents of the nodes in hits, each once, in pre-order,
\* and the boolean tells whether there is one
ListsInPreorder(hits) ==
    /\ Len(matches) = Cardinality(hits)
    /\ \A m \in hits :
           matches[1 + Cardinality({k \in hits :
                          Earlier(IndexPath(heap, op.n, k),
                                  IndexPath(heap, op.n, m))})]
               = GetContentS(heap[m])
    /\ found = (Len(matches) > 0)

SearchedContent == op.name = "SearchContent" /\ panicked = ""

\* C11 as stated: for every list of candidate paths the result is the
\* content of every node whose running path is a candidate path, once per
\* node, in pre-order, and the boolean is true exactly when there is one.
C11_EveryMatch ==
    SearchedContent
        => ListsInPreorder(Matching(heap, op.n, op.ct, op.names))

\* C11 amended: the same, when some candidate path is not empty (when the
\* longest candidate path is empty the walk stops at the receiver).
C11_EveryMatchNonEmptyPath ==
    (SearchedContent /\ \E i \in 1..Len(op.names) : op.names[i] # <<>>)
        => ListsInPreorder(Matching(heap, op.n, op.ct, op.names))

\* a search that found three nodes with two contents, one of them two levels
\* below a root that is not named prefix[0]
C11_Witness ==
    /\ SearchedContent
    /\ GetName(heap[Root]) # op.ct[1]
    /\ Len(matches) = 3 /\ found
    /\ matches[1] # matches[2]
    /\ \E m \in Matching(heap, Root, op.ct, op.names) :
           Len(IndexPath(heap, Root, m)) = 2

\* ------------------------------------------------------------------ C12

\* the node follows the qualified convention: its markup name is set
Qualified(node) == GetXMLNameS(node) # <<>>

\* C12: after parent.NewChild(name, content), for every name, the new node
\* is the last of parent's children, its parent back-reference is parent,
\* its name accessor returns name and it follows its parent's convention,
\* so that every node of the tree follows the convention of the root.
C12_NewChildKeepsConvention ==
    [][op'.name = "NewChild"
          => LET parent == op'.n
                 child == ret'
             IN  /\ heap'[parent].Children = Append(heap[parent].Children, child)
                 /\ GetParent(heap'[child]) = parent
                 /\ GetName(heap'[child]) = op'.nm
                 /\ Qualified(heap'[child]) = Qualified(heap[parent])
                 /\ \A n \in 1..Len(heap') :
                        Qualified(heap'[n]) = Qualified(heap'[Root])]_vars

\* ------------------------------------------------------------------ C13

Preprocessed == op'.name = "PreprocessTemplate" /\ steps' = steps + 1

\* m lies below a node named LabelAgent
UnderSentinel(h, m) ==
    \E a \in 1..Len(h) : GetName(h[a]) = LabelAgent /\ m \in Reach(h, a) \ {a}

\* m gave its content to a new anonymous last child and holds none
Demoted(m) ==
    /\ heap'[m].Content = <<>>
    /\ Len(heap'[m].Children) = Len(heap[m].Children) + 1
    /\ SubSeq(heap'[m].Children, 1, Len(heap[m].Children)) = heap[m].Children
    /\ LET new == heap'[m].Children[Len(heap'[m].Children)]
       IN  /\ new > Len(heap)
           /\ Anonymous(heap', new)
           /\ GetContentS(heap'[new]) = GetContentS(heap[m])
           /\ heap'[new].Children = <<>>

Kept(m) ==
    /\ heap'[m].Content = heap[m].Content
    /\ heap'[m].Children = heap[m].Children

\* C13 as stated: every named node of the receiver's subtree that lies under
\* the sentinel and holds content is demoted; nodes that do not lie under
\* the sentinel keep their content and children.
C13_EveryNodeNormalized ==
    [][Preprocessed
          => /\ panicked' = ""
             /\ \A m \in Reach(heap, op'.n) :
                    /\ (Named(heap, m) /\ UnderSentinel(heap, m)
                            /\ GetContentS(heap[m]) # <<>>) => Demoted(m)
                    /\ ~UnderSentinel(heap, m) => Kept(m)]_vars

\* m is reached from root through named nodes, each the first child of its
\* name of its parent
RECURSIVE FirstNamedWay(_, _, _)
FirstNamedWay(h, root, m) ==
    \/ m = root
    \/ /\ GetParent(h[m]) # NIL
       /\ Named(h, m)
       /\ GetChild(h, GetParent(h[m]), GetName(h[m])) = m
       /\ FirstNamedWay(h, root, GetParent(h[m]))

\* C13 amended: the nodes demoted are the nodes strictly below the receiver
\* that lie under the sentinel, hold content and are reached from the
\* receiver through named nodes that are each the first child of their name;
\* every other node (the receiver, anonymous nodes and what lies below
\* them, later children of a repeated name and what lies below them, nodes
\* not under the sentinel or without content) keeps its content and
\* children.
C13_FirstNamedNormalized ==
    [][Preprocessed
          => /\ panicked' = ""
             /\ \A m \in Nodes :
                    IF /\ m # op'.n
                       /\ FirstNamedWay(heap, op'.n, m)
                       /\ UnderSentinel(heap, m)
                       /\ GetContentS(heap[m]) # <<>>
                    THEN Demoted(m)
                    ELSE Kept(m)]_vars

\* a state after PreprocessTemplate on a child of the sentinel, in which a
\* node two levels below the sentinel was demoted and its later sibling of
\* the same name still holds content
C13_Witness ==
    /\ op.name = "PreprocessTemplate" /\ panicked = ""
    /\ GetName(heap[Root]) = LabelAgent /\ op.n # Root
    /\ Len(heap[op.n].Children) = 2
    /\ LET first == heap[op.n].Children[1]
           second == heap[op.n].Children[2]
       IN  /\ Named(heap, first)
           /\ GetName(heap[first]) = GetName(heap[second])
           /\ heap[first].Content = <<>>
           /\ Len(heap[first].Children) = 1
           /\ GetContentS(heap[heap[first].Children[1]]) = <<"x">>
           /\ heap[second].Content = <<"x">>

\* ------------------------------------------------------------------ C14

\* the upward walk from n along parent links reaches, within fuel steps, a
\* node without a parent
RECURSIVE WalkEnds(_, _, _)
WalkEnds(h, n, fuel) ==
    /\ fuel > 0
    /\ GetParent(h[n]) = NIL \/ WalkEnds(h, GetParent(h[n]), fuel - 1)

\* C14: on a tree, PreprocessTemplate returns, and the upward walk along
\* parent links from every node, the nodes it created included, ends at a
\* node without a parent.
C14_PreprocessTerminates ==
    op.name = "PreprocessTemplate"
        => /\ panicked = ""
           /\ \A n \in Nodes : WalkEnds(heap, n, Len(heap))

\* a state after PreprocessTemplate returned from a tree three levels deep
\* in which it created two children
C14_Witness ==
    /\ op.name = "PreprocessTemplate" /\ panicked = "" /\ op.n = Root
    /\ Len(heap) = MaxPreNodes + 2
    /\ \E n \in Nodes :
           GetParent(heap[n]) # NIL
               /\ GetParent(heap[GetParent(heap[n])]) \notin {NIL, Root}

\* ------------------------------------------------------------------ C15

\* cs without its first node named name, the others in their order
RECURSIVE WithoutFirst(_, _, _)
WithoutFirst(h, cs, name) ==
    IF cs = <<>> THEN <<>>
    ELSE IF GetName(h[Head(cs)]) = name THEN Tail(cs)
    ELSE <<Head(cs)>> \o WithoutFirst(h, Tail(cs), name)

\* C15: NewChild and AddChild put the child behind the children already
\* there, and PopChild(name) removes the first child of that name and leaves
\* the others in their order: the children list is the children still
\* attached, in insertion order.
C15_InsertionOrder ==
    [][/\ op'.name = "NewChild"
           => heap'[op'.n].Children = Append(heap[op'.n].Children, ret')
       /\ op'.name = "AddChild"
           => heap'[op'.n].Children = Append(heap[op'.n].Children, op'.arg)
       /\ op'.name = "PopChild"
           => heap'[op'.n].Children =
                  WithoutFirst(heap, heap[op'.n].Children, op'.nm)]_vars

\* ------------------------------------------------------------------ C16

\* the first Merge of the base with the subtemplate, the two sharing no node
FirstMerge ==
    /\ op'.name = "Merge" /\ steps = 0 /\ steps' = 1 /\ panicked' = ""
    /\ Reach(heap, Receiver) \cap Reach(heap, Source) = {}

\* C16 as stated: the Merge leaves the name, content and children of every
\* node reachable from the subtemplate unchanged, also when children of the
\* subtemplate share a name.
C16_SubtemplateKept ==
    [][FirstMerge => SameTree(heap, heap', Source)]_vars

\* no node reachable from n has two named children with the same name
NoRepeatedName(h, n) ==
    \A m \in Reach(h, n) :
        \A i, j \in 1..Len(h[m].Children) :
            (/\ Named(h, h[m].Children[i])
             /\ GetName(h[h[m].Children[i]]) = GetName(h[h[m].Children[j]]))
                => i = j

\* C16 amended: the same, when no node of the subtemplate has two named
\* children with the same name (anonymous children may repeat).
C16_SubtemplateKeptNoRepeat ==
    [][(FirstMerge /\ NoRepeatedName(heap, Source))
          => SameTree(heap, heap', Source)]_vars

\* a state after the first Merge in which the base took over the content of
\* a named child of the subtemplate and adopted an anonymous one
C16_Witness ==
    /\ op.name = "Merge" /\ steps = 1 /\ panicked = ""
    /\ NoRepeatedName(heap, Source)
    /\ \E i, j \in 1..Len(heap[Source].Children) :
           LET c == SourceChild(heap, i)
               d == SourceChild(heap, j)
           IN  /\ Named(heap, c) /\ ~IsChildOf(heap, Receiver, c)
               /\ Mine(heap, c) # NIL
               /\ heap[Mine(heap, c)].Content = heap[c].Content
               /\ Anonymous(heap, d)
               /\ IsChildOf(heap, Receiver, d)

\* ------------------------------------------------------------------ C17

\* C17: no node is reachable from itself through children lists (and so
\* every call returns).
C17_Acyclic ==
    /\ panicked = ""
    /\ \A n \in Nodes :
           \A i \in 1..Len(heap[n].Children) :
               n \notin Reach(heap, heap[n].Children[i])

\* a state after the two roots were composed in both directions: each holds
\* a child the other created, so that subtrees are shared between the trees
C17_Witness ==
    /\ steps >= 2 /\ panicked = ""
    /\ op.name \in {"Union", "Merge"}
    /\ \E c, d \in Nodes :
           /\ GetParent(heap[c]) = Receiver /\ IsChildOf(heap, Source, c)
           /\ GetParent(heap[d]) = Source /\ IsChildOf(heap, Receiver, d)

\* ------------------------------------------------------------------ C18

\* the second of two Merge calls in a row with the empty skip-overwrite list
SecondMerge ==
    /\ op'.name = "Merge" /\ op.name = "Merge" /\ again'
    /\ op'.names = <<>> /\ panicked' = ""

\* C18: the second call leaves the names, contents and child sequences of
\* every node reachable from the base as the first call left them.
C18_MergeIdempotent ==
    [][SecondMerge => SameTree(heap, heap', Receiver)]_vars

\* every node below n is named
AllNamed(h, n) == \A m \in Reach(h, n) \ {n} : Named(h, m)

\* C18 amended: the same, for a base and a subtemplate that share no node
\* before the first call, when every node below the subtemplate is named and
\* no node of the subtemplate has two children with the same name.
C18_MergeIdempotentNamed ==
    [][(/\ SecondMerge
        /\ AllNamed(heap, Source)
        /\ NoRepeatedName(heap, Source))
          => SameTree(heap, heap', Receiver)]_vars

\* a state after the second call, the subtemplate holding named children
\* only: the base holds a child it adopted from the subtemplate and a child
\* of its own with the content of the subtemplate's child of that name
C18_Witness ==
    /\ op.name = "Merge" /\ again /\ op.names = <<>> /\ panicked = ""
    /\ AllNamed(heap, Source) /\ NoRepeatedName(heap, Source)
    /\ \E i \in 1..Len(heap[Source].Children) :
           IsChildOf(heap, Receiver, SourceChild(heap, i))
    /\ \E k \in 1..Len(heap[Receiver].Children) :
           LET m == heap[Receiver].Children[k]
           IN  /\ GetParent(heap[m]) = Receiver
               /\ \E d \in Nodes :
                      /\ GetParent(heap[d]) = Source
                      /\ GetName(heap[d]) = GetName(heap[m])
                      /\ heap[d].Content = heap[m].Content

\* ------------------------------------------------------------------ C10

FirstUnion ==
    /\ Building
    /\ op'.name = "Union" /\ op'.arg = Source /\ panicked' = ""

\* what recursing leaves in the receiver's child: mine.Union(c)
Recursed(h, c) == Union(h, Mine(h, c), c, PairFuel(h))[Mine(h, c)]

\* what overwriting leaves there: c's content, the children untouched
Overwritten(h, c) == [h[Mine(h, c)] EXCEPT !.Content = h[c].Content]

\* C10 as stated: for a source child c whose name the receiver has, Union
\* recurses exactly when the receiver's existing child has children, and
\* otherwise overwrites that child's content, adopting nothing.
C10_DrivenByReceiver ==
    [][FirstUnion
          => \A i \in 1..Len(heap[Source].Children) :
                 LET c == SourceChild(heap, i)
                 IN  (Mine(heap, c) # NIL /\ OnlyOfItsName(heap, i))
                         => heap'[Mine(heap, c)] =
                                IF Len(heap[Mine(heap, c)].Children) > 0
                                THEN Recursed(heap, c)
                                ELSE Overwritten(heap, c)]_vars

\* C10 amended: Union recurses exactly when the source child c has a non-nil
\* Children slice (c has, or once had, children), and otherwise overwrites
\* the existing child's content with c's content.
C10_DrivenBySource ==
    [][FirstUnion
          => \A i \in 1..Len(heap[Source].Children) :
                 LET c == SourceChild(heap, i)
                 IN  (Mine(heap, c) # NIL /\ OnlyOfItsName(heap, i))
                         => heap'[Mine(heap, c)] =
                                IF ~heap[c].ChildrenNil
                                THEN Recursed(heap, c)
                                ELSE Overwritten(heap, c)]_vars

\* a state after one Union in which a child of the receiver that was a leaf
\* holds the children of the source child of its name: Union recursed
C10_Witness ==
    /\ op.name = "Union" /\ op.arg = Source /\ ~again /\ panicked = ""
    /\ \E i \in 1..Len(heap[Source].Children) :
           LET c == SourceChild(heap, i)
           IN  /\ OnlyOfItsName(heap, i)
               /\ Mine(heap, c) \notin {NIL, c}
               /\ heap[c].Children # <<>>
               /\ heap[Mine(heap, c)].Children = heap[c].Children

=============================================================================
